---- MODULE Spec2Model ----
(***************************************************************************)
(* Model of the WithDictionary column codec of                            *)
(* dbms/src/DataTypes/DataTypeWithDictionary.cpp: the encoder session     *)
(* (prefix, per-block serialize, suffix), the decoder session (prefix,    *)
(* deserialize(limit)), the index-type header word and the two streams.   *)
(*                                                                         *)
(* The element type is a non-nullable number; values are small integers.  *)
(* A stream is the sequence of the items written to it (64-bit words and  *)
(* element values), read back by position.                                 *)
(***************************************************************************)
EXTENDS Integers, Sequences, FiniteSets, TLC

\* ---- bounds of the model ----
NumValues == 2          \* element values are 1..NumValues
MaxLen == 2             \* longest source column
MaxDict == 2            \* largest max_dictionary_size setting
MaxBlocks == 2          \* serialize calls per encoder session
MaxCalls == 2           \* deserialize calls per decoder session
MaxVersion == 2         \* version words a foreign keys stream may start with
MaxWord == 1100         \* header words drawn for the header round trip
MaxIndexLen == 3        \* longest indexes column handed to mapIndexWithOverflow
MaxIndexValue == 3      \* largest index in such a column

Values == 1..NumValues

VARIABLES
    column,                         \* the source column handed to serialize
    max_dictionary_size,            \* settings.max_dictionary_size
    use_new_dictionary_on_overflow, \* settings.use_new_dictionary_on_overflow
    enc_pc,                         \* encoder session: "init", "open", "closed", "aborted"
    global_dictionary,              \* SerializeStateWithDictionary::global_dictionary
    keys_stream,                    \* items of the DictionaryKeys substream
    indexes_stream,                 \* items of the DictionaryIndexes substream
    blocks,                         \* history: one record per block a serialize call wrote
    enc_call,                       \* the last serialize call: streams the getter gave, outcome
    tampered,                       \* foreign bytes in the streams: what kind and where
    dec,                            \* decoder session: state, stream positions, target column
    calls,                          \* history: the limits of the deserialize calls made
    hdr_word,                       \* header round trip: the 64-bit word under test
    hdr_type,                       \* header round trip: the descriptor under test
    hdr_out,                        \* header round trip: result of the last conversion
    map_index,                      \* mapIndexWithOverflow: the indexes column before the call
    map_max,                        \* mapIndexWithOverflow: max_val
    map_out                         \* mapIndexWithOverflow: the column after the call, the map

vars == <<column, max_dictionary_size, use_new_dictionary_on_overflow, enc_pc,
          global_dictionary, keys_stream, indexes_stream, blocks, enc_call,
          tampered, dec, calls, hdr_word, hdr_type, hdr_out,
          map_index, map_max, map_out>>

enc_vars == <<column, max_dictionary_size, use_new_dictionary_on_overflow, enc_pc,
              global_dictionary, keys_stream, indexes_stream, blocks, enc_call>>
hdr_vars == <<hdr_word, hdr_type, hdr_out>>
map_vars == <<map_index, map_max, map_out>>

\* ---- helpers on sequences ----
Min(a, b) == IF a < b THEN a ELSE b

Range(s) == {s[i] : i \in 1..Len(s)}

\* 0-based position of v in s (v occurs in s)
PositionOf(s, v) == (CHOOSE i \in 1..Len(s) : s[i] = v) - 1

\* s[from .. from + count) with a 0-based start
Slice(s, from, count) == SubSeq(s, from + 1, from + count)

\* the items available in a stream from 1-based position pos, at most n of them
ReadBulk(stream, pos, n) == SubSeq(stream, pos, Min(pos + n - 1, Len(stream)))

\* ---- KeysSerializationVersion ----
SingleDictionaryWithAdditionalKeysPerBlock == 1

\* a gate that also lets version 0 through
checkVersion_AtMost(version) == version <= SingleDictionaryWithAdditionalKeysPerBlock

checkVersion(version) == version = SingleDictionaryWithAdditionalKeysPerBlock

\* ---- IndexesSerializationType ----
NeedGlobalDictionaryBit == 256
HasAdditionalKeysBit == 512
TUInt64 == 3

Bit(word, b) == (word \div b) % 2

\* a mask that clears the has-additional-keys bit only
resetFlags_OneFlag(type) ==
    type - HasAdditionalKeysBit * Bit(type, HasAdditionalKeysBit)

resetFlags(type) ==
    type - HasAdditionalKeysBit * Bit(type, HasAdditionalKeysBit)
         - NeedGlobalDictionaryBit * Bit(type, NeedGlobalDictionaryBit)

\* a check that looks at the low byte only
checkType_LowByte(type) == (type % 256) <= TUInt64

checkType(type) == resetFlags(type) <= TUInt64

\* IndexesSerializationType::serialize: the word written
IndexTypeSerialize(t) ==
    t.type + (IF t.has_additional_keys THEN HasAdditionalKeysBit ELSE 0)
           + (IF t.need_global_dictionary THEN NeedGlobalDictionaryBit ELSE 0)

\* IndexesSerializationType::deserialize of an accepted word
IndexTypeDeserialize(val) ==
    [type |-> resetFlags(val),
     has_additional_keys |-> Bit(val, HasAdditionalKeysBit) # 0,
     need_global_dictionary |-> Bit(val, NeedGlobalDictionaryBit) # 0]

\* the width code of an indexes column: the narrowest unsigned type holding its ids
IndexTypeOfColumn(positions) ==
    LET top == IF positions = <<>> THEN 0
               ELSE CHOOSE m \in Range(positions) : \A x \in Range(positions) : x <= m
    IN  IF top < 256 THEN 0 ELSE IF top < 65536 THEN 1 ELSE 2

IndexTypes == [type : 0..TUInt64, has_additional_keys : BOOLEAN, need_global_dictionary : BOOLEAN]

\* ---- ColumnWithDictionary::cutAndCompact ----
RECURSIVE DistinctInOrder(_)
DistinctInOrder(s) ==
    IF s = <<>> THEN <<>>
    ELSE LET front == DistinctInOrder(SubSeq(s, 1, Len(s) - 1))
             last == s[Len(s)]
         IN  IF last \in Range(front) THEN front ELSE Append(front, last)

cutAndCompact(col, offset, limit) ==
    LET rows == Slice(col, offset, limit)
        keys == DistinctInOrder(rows)
    IN  [keys |-> keys,
         positions |-> [i \in 1..Len(rows) |-> PositionOf(keys, rows[i])]]

\* ---- ColumnUnique::uniqueInsertRangeWithOverflow ----
RECURSIVE InsertKeys(_, _, _, _)
InsertKeys(dict, overflowed, keys, max_size) ==
    IF keys = <<>> THEN [dict |-> dict, overflowed |-> overflowed]
    ELSE LET k == Head(keys)
         IN  IF k \in Range(dict) \/ k \in Range(overflowed)
                THEN InsertKeys(dict, overflowed, Tail(keys), max_size)
             ELSE IF Len(dict) < max_size
                THEN InsertKeys(Append(dict, k), overflowed, Tail(keys), max_size)
             ELSE InsertKeys(dict, Append(overflowed, k), Tail(keys), max_size)

uniqueInsertRangeWithOverflow(dict, keys, max_size) ==
    LET r == InsertKeys(dict, <<>>, keys, max_size)
    IN  [dict |-> r.dict,
         overflowed_keys |-> r.overflowed,
         indexes |-> [i \in 1..Len(keys) |->
                        IF keys[i] \in Range(r.dict)
                        THEN PositionOf(r.dict, keys[i])
                        ELSE Len(r.dict) + PositionOf(r.overflowed, keys[i])]]

\* ---- serializeBinaryBulkWithMultipleStreams ----
\* limit = limit ? min(limit, max_limit) : max_limit
\* a clamp that takes limit = 0 as "no rows"
ClampLimit_PlainMin(col, offset, limit) == Min(limit, Len(col) - offset)

ClampLimit(col, offset, limit) ==
    LET max_limit == Len(col) - offset
    IN  IF limit # 0 THEN Min(limit, max_limit) ELSE max_limit

\* a flush that ignores use_new_dictionary_on_overflow
NeedWriteDictionary_AnyMode(dict_size) == dict_size >= max_dictionary_size

NeedWriteDictionary(dict_size) ==
    use_new_dictionary_on_overflow /\ dict_size >= max_dictionary_size

\* a header that always asks for the global dictionary
NeedDictionary_Always == TRUE

\* a header that never asks for the global dictionary
NeedDictionary_Never == FALSE

NeedDictionary == max_dictionary_size # 0

\* the writes of one call, in program order: each entry is one write to one stream
RECURSIVE WrittenTo(_, _)
WrittenTo(writes, stream) ==
    IF writes = <<>> THEN <<>>
    ELSE (IF writes[1].stream = stream THEN writes[1].items ELSE <<>>)
         \o WrittenTo(Tail(writes), stream)

\* additional keys written without their count
AdditionalKeysWritten_Uncounted(keys) == keys

\* writeIntBinary(num_keys), then the keys
AdditionalKeysWritten(keys) == <<Len(keys)>> \o keys

\* the global dictionary written before the header
WriteOrder_DictionaryFirst(header, dictionary, additional, rows) ==
    dictionary \o header \o additional \o rows

\* header; global dictionary block; additional keys; row count and indexes
WriteOrder(header, dictionary, additional, rows) ==
    header \o dictionary \o additional \o rows

\* positions left as the sub-column numbered them
MapPositions_Unmapped(mapping, positions) == positions

\* positions = indexes_with_overflow.indexes->index(*positions, 0)
MapPositions(mapping, positions) ==
    [i \in 1..Len(positions) |-> mapping[positions[i] + 1]]

\* everything one serialize call computes and writes
SerializeBlock(offset, limit) ==
    LET n == ClampLimit(column, offset, limit)
        sub_column == cutAndCompact(column, offset, n)
        ins == uniqueInsertRangeWithOverflow(global_dictionary, sub_column.keys,
                                             max_dictionary_size)
        dict == IF max_dictionary_size # 0 THEN ins.dict ELSE global_dictionary
        positions == IF max_dictionary_size # 0
                     THEN MapPositions(ins.indexes, sub_column.positions)
                     ELSE sub_column.positions
        keys == IF max_dictionary_size # 0 THEN ins.overflowed_keys ELSE sub_column.keys
        need_additional_keys == keys # <<>>
        need_write_dictionary == NeedWriteDictionary(Len(dict))
        index_version == [type |-> IndexTypeOfColumn(positions),
                          has_additional_keys |-> need_additional_keys,
                          need_global_dictionary |-> NeedDictionary]
        writes == WriteOrder(
                    <<[stream |-> "indexes", items |-> <<IndexTypeSerialize(index_version)>>]>>,
                    IF need_write_dictionary
                    THEN <<[stream |-> "keys", items |-> <<Len(dict)>> \o dict]>> ELSE <<>>,
                    IF need_additional_keys
                    THEN <<[stream |-> "indexes", items |-> AdditionalKeysWritten(keys)]>>
                    ELSE <<>>,
                    <<[stream |-> "indexes", items |-> <<n>>],
                      [stream |-> "indexes", items |-> positions]>>)
    IN  [rows |-> Slice(column, offset, n),
         header |-> IndexTypeSerialize(index_version),
         dict |-> dict,
         flushed |-> need_write_dictionary,
         writes |-> writes,
         keys_written |-> WrittenTo(writes, "keys"),
         new_dictionary |-> IF need_write_dictionary THEN <<>> ELSE dict,
         additional_keys |-> keys,
         positions |-> positions,
         indexes_written |-> WrittenTo(writes, "indexes")]

\* ---- serializeBinaryBulkStateSuffix ----
\* the state's global_dictionary pointer is set by the prefix and never null after it
\* a suffix that writes no dictionary
SuffixWritesDictionary_Never == FALSE

\* a suffix that skips an empty dictionary
SuffixWritesDictionary_NonEmpty == max_dictionary_size # 0 /\ global_dictionary # <<>>

SuffixWritesDictionary == max_dictionary_size # 0

SuffixKeysWritten ==
    IF SuffixWritesDictionary THEN <<Len(global_dictionary)>> \o global_dictionary ELSE <<>>

\* ---- DeserializeStateWithDictionary, the stream positions and the target column ----
\* A pointer that may be null is a sequence of length 0 (null) or 1 (the object).
\* status: "none" (no state installed), "ok", "logical_error" (LOGICAL_ERROR thrown),
\* "eof_error" (a read past the end of a stream threw), "crashed" (null dereference).
\* absent_used: readIndexes has installed or dereferenced a null dictionary or null keys.
NoDecoder ==
    [status |-> "none", installed |-> FALSE, key_version |-> 0,
     global_dictionary |-> <<>>, index_type |-> <<>>, additional_keys |-> <<>>,
     num_pending_rows |-> 0, kpos |-> 1, ipos |-> 1,
     column |-> <<>>, shared |-> FALSE,
     dicts_read |-> 0, block_dicts |-> <<>>, ub |-> "unset",
     snap |-> <<>>, failed_in |-> "none", absent_used |-> FALSE]

\* KeysSerializationVersion(UInt64): the constructor runs checkVersion and throws
\* before make_shared returns, so a rejected version installs no state
deserializeStatePrefix(d) ==
    IF d.kpos > Len(keys_stream)
    THEN [d EXCEPT !.status = "eof_error", !.failed_in = "prefix"]
    ELSE LET keys_version == keys_stream[d.kpos]
         IN  IF checkVersion(keys_version)
             THEN [d EXCEPT !.status = "ok", !.installed = TRUE,
                            !.key_version = keys_version, !.kpos = d.kpos + 1]
             ELSE [d EXCEPT !.status = "logical_error", !.failed_in = "prefix",
                            !.kpos = d.kpos + 1]

\* ---- mapIndexWithOverflow ----
\* hash_map: the distinct values below max_val, numbered in order of first insertion
BelowMax(index, max_val) == SelectSeq(index, LAMBDA v : v < max_val)

\* a remap that forgets to place the overflow ids after the N remapped ones
mapIndexWithOverflow_NoShift(index, max_val) ==
    LET index_map == DistinctInOrder(BelowMax(index, max_val))
    IN  [index_map |-> index_map,
         index |-> [i \in 1..Len(index) |->
                      IF index[i] < max_val
                      THEN PositionOf(index_map, index[i])
                      ELSE index[i] - max_val]]

mapIndexWithOverflow(index, max_val) ==
    LET index_map == DistinctInOrder(BelowMax(index, max_val))
    IN  [index_map |-> index_map,
         index |-> [i \in 1..Len(index) |->
                      IF index[i] < max_val
                      THEN PositionOf(index_map, index[i])
                      ELSE index[i] - max_val + Len(index_map)]]

\* ---- readIndexes and the columns it appends from ----
Garbage == 0            \* what an out-of-range read yields: no element value

\* keys[indexes[i]] for every i, as insertRangeFromDictionaryEncodedColumn appends
Gather(keys, indexes) ==
    [i \in 1..Len(indexes) |->
        IF indexes[i] < Len(keys) THEN keys[indexes[i] + 1] ELSE Garbage]

InRange(keys, indexes) == \A i \in 1..Len(indexes) : indexes[i] < Len(keys)

\* the undefined step: this build either stops there or carries on
Undefined(d, proceeds, next) ==
    LET choice == IF d.ub = "unset" THEN (IF proceeds THEN "proceed" ELSE "crash") ELSE d.ub
    IN  IF choice = "crash" THEN [d EXCEPT !.status = "crashed", !.ub = choice]
        ELSE [next EXCEPT !.ub = choice]

readIndexes(d0, num_rows, proceeds) ==
    LET indexes_column == ReadBulk(indexes_stream, d0.ipos, num_rows)
        d == [d0 EXCEPT !.ipos = d0.ipos + Len(indexes_column)]
        has_global == d.global_dictionary # <<>>
        has_additional_keys == d.index_type[1].has_additional_keys
        column_is_empty == d.column = <<>>
        column_with_global_dictionary == d.shared /\ has_global
    IN  IF ~has_additional_keys /\ (column_is_empty \/ column_with_global_dictionary)
        THEN \* the column shares the global dictionary and takes the indexes as they are
             IF ~has_global
             THEN Undefined([d EXCEPT !.absent_used = TRUE], proceeds,
                            [d EXCEPT !.absent_used = TRUE])
             ELSE LET g == d.global_dictionary[1]
                      next == [d EXCEPT !.shared = TRUE,
                                        !.column = d.column \o Gather(g, indexes_column)]
                  IN  IF Len(indexes_column) < num_rows
                      THEN [d EXCEPT !.status = "eof_error", !.shared = TRUE]
                      ELSE IF InRange(g, indexes_column) THEN next
                      ELSE Undefined(d, proceeds, next)
        ELSE IF ~d.index_type[1].need_global_dictionary
        THEN \* the indexes point into the additional keys only
             IF d.additional_keys = <<>>
             THEN Undefined([d EXCEPT !.absent_used = TRUE], proceeds,
                            [d EXCEPT !.shared = FALSE, !.absent_used = TRUE])
             ELSE LET a == d.additional_keys[1]
                      next == [d EXCEPT !.shared = FALSE,
                                        !.column = d.column \o Gather(a, indexes_column)]
                  IN  IF InRange(a, indexes_column) THEN next
                      ELSE Undefined(d, proceeds, next)
        ELSE \* global dictionary followed by the additional keys
             LET g == d.global_dictionary[1]
                 m == mapIndexWithOverflow(indexes_column, Len(g))
                 keys == Gather(g, m.index_map)
                         \o (IF d.additional_keys # <<>> THEN d.additional_keys[1] ELSE <<>>)
                 next == [d EXCEPT !.shared = FALSE,
                                   !.column = d.column \o Gather(keys, m.index)]
             IN  IF InRange(keys, m.index) THEN next
                 ELSE Undefined(d, proceeds, next)

\* ---- the reads at the start of a block (num_pending_rows = 0, not at EOF) ----
\* index_type.deserialize: checkType throws before any field is assigned
readHeader(d) ==
    LET val == indexes_stream[d.ipos]
        d1 == [d EXCEPT !.ipos = d.ipos + 1,
                        !.snap = <<[column |-> d.column, index_type |-> d.index_type,
                                    num_pending_rows |-> d.num_pending_rows]>>]
    IN  IF checkType(val)
        THEN [d1 EXCEPT !.index_type = <<IndexTypeDeserialize(val)>>]
        ELSE [d1 EXCEPT !.status = "logical_error", !.failed_in = "header"]

NeedReadDictionary(d) ==
    d.index_type[1].need_global_dictionary /\ d.global_dictionary = <<>>

readDictionary(d) ==
    IF d.kpos > Len(keys_stream) THEN [d EXCEPT !.status = "eof_error"]
    ELSE LET num_keys == keys_stream[d.kpos]
             global_dict_keys == ReadBulk(keys_stream, d.kpos + 1, num_keys)
         IN  [d EXCEPT !.global_dictionary = <<global_dict_keys>>,
                       !.kpos = d.kpos + 1 + Len(global_dict_keys),
                       !.dicts_read = d.dicts_read + 1]

readAdditionalKeys(d) ==
    IF d.ipos > Len(indexes_stream) THEN [d EXCEPT !.status = "eof_error"]
    ELSE LET num_keys == indexes_stream[d.ipos]
             keys == ReadBulk(indexes_stream, d.ipos + 1, num_keys)
         IN  [d EXCEPT !.additional_keys = <<keys>>, !.ipos = d.ipos + 1 + Len(keys)]

readNumPendingRows(d) ==
    IF d.ipos > Len(indexes_stream) THEN [d EXCEPT !.status = "eof_error"]
    ELSE [d EXCEPT !.num_pending_rows = indexes_stream[d.ipos], !.ipos = d.ipos + 1,
                   !.block_dicts = Append(d.block_dicts, d.dicts_read)]

readBlockStart(d) ==
    LET d1 == readHeader(d)
        d2 == IF d1.status # "ok" THEN d1
              ELSE IF NeedReadDictionary(d1) THEN readDictionary(d1) ELSE d1
        d3 == IF d2.status # "ok" THEN d2
              ELSE IF d2.index_type[1].has_additional_keys THEN readAdditionalKeys(d2)
              ELSE [d2 EXCEPT !.additional_keys = <<>>]
    IN  IF d3.status # "ok" THEN d3 ELSE readNumPendingRows(d3)

\* num_pending_rows -= num_rows_to_read
\* a loop that forgets the rest of a block it has cut
PendingAfter_Reset(num_pending_rows, num_rows_to_read) == 0

PendingAfter(num_pending_rows, num_rows_to_read) == num_pending_rows - num_rows_to_read

\* ---- deserializeBinaryBulkWithMultipleStreams: the loop while (limit) ----
RECURSIVE deserializeLoop(_, _, _)
deserializeLoop(d, limit, proceeds) ==
    IF limit = 0 \/ d.status # "ok" THEN d
    ELSE IF d.num_pending_rows = 0 /\ d.ipos > Len(indexes_stream) THEN d
    ELSE LET d1 == IF d.num_pending_rows = 0 THEN readBlockStart(d) ELSE d
         IN  IF d1.status # "ok" THEN d1
             ELSE LET num_rows_to_read == Min(limit, d1.num_pending_rows)
                      d2 == readIndexes(d1, num_rows_to_read, proceeds)
                  IN  IF d2.status # "ok" THEN d2
                      ELSE deserializeLoop(
                             [d2 EXCEPT !.num_pending_rows =
                                          PendingAfter(d1.num_pending_rows, num_rows_to_read)],
                             limit - num_rows_to_read, proceeds)

\* ---- the encoder session ----
\* the caller serializes consecutive row ranges: each call starts where the last ended;
\* every limit above the rows that are left is clamped alike, so one such limit is drawn
RECURSIVE RowsOf(_)
RowsOf(bs) == IF bs = <<>> THEN <<>> ELSE RowsOf(SubSeq(bs, 1, Len(bs) - 1)) \o bs[Len(bs)].rows

NextOffset == Len(RowsOf(blocks))

serializeBinaryBulkStatePrefix ==
    /\ enc_pc = "init"
    /\ enc_pc' = "open"
    /\ keys_stream' = Append(keys_stream, SingleDictionaryWithAdditionalKeysPerBlock)
    /\ global_dictionary' = <<>>
    /\ UNCHANGED <<column, max_dictionary_size, use_new_dictionary_on_overflow,
                   indexes_stream, blocks, enc_call, tampered, dec, calls>>
    /\ UNCHANGED hdr_vars
    /\ UNCHANGED map_vars

\* the getter's answer for the two sub-paths decides the call before anything is
\* read or written: both absent returns, one absent throws LOGICAL_ERROR
\* a call that goes on when one stream is absent
StreamsOutcome_OneIsEnough(keys_present, indexes_present) ==
    IF ~keys_present /\ ~indexes_present THEN "returned" ELSE "written"

StreamsOutcome(keys_present, indexes_present) ==
    IF ~keys_present /\ ~indexes_present THEN "returned"
    ELSE IF ~keys_present \/ ~indexes_present THEN "logical_error"
    ELSE "written"

NoCall == [n |-> 0, keys_present |-> TRUE, indexes_present |-> TRUE, result |-> "none"]

\* one call of serializeBinaryBulkWithMultipleStreams whose getter gives the keys
\* stream iff keys_present and the indexes stream iff indexes_present
serializeCall(keys_present, indexes_present) ==
    /\ enc_pc = "open"
    /\ enc_call.n < MaxBlocks
    /\ enc_call' = [n |-> enc_call.n + 1, keys_present |-> keys_present,
                    indexes_present |-> indexes_present,
                    result |-> StreamsOutcome(keys_present, indexes_present)]
    /\ IF StreamsOutcome(keys_present, indexes_present) # "written"
       THEN UNCHANGED <<indexes_stream, keys_stream, global_dictionary, blocks>>
       ELSE \E limit \in 0..(Len(column) - NextOffset + 1) :
              LET offset == NextOffset
                  b == SerializeBlock(offset, limit)
              IN  /\ indexes_stream' = indexes_stream \o b.indexes_written
                  /\ keys_stream' = keys_stream \o b.keys_written
                  /\ global_dictionary' = b.new_dictionary
                  /\ blocks' = Append(blocks,
                         [offset |-> offset, limit |-> limit, rows |-> b.rows,
                          header |-> b.header, header_pos |-> Len(indexes_stream) + 1,
                          dict |-> b.dict, flushed |-> b.flushed,
                          additional_keys |-> b.additional_keys,
                          positions |-> b.positions,
                          keys_written |-> b.keys_written,
                          writes |-> b.writes])
    /\ UNCHANGED <<column, max_dictionary_size, use_new_dictionary_on_overflow,
                   enc_pc, tampered, dec, calls>>
    /\ UNCHANGED hdr_vars
    /\ UNCHANGED map_vars

\* the caller's getter gives both streams
serializeBinaryBulkWithMultipleStreams == serializeCall(TRUE, TRUE)

\* the caller's getter may give no stream for a sub-path
serializeWithGetter == \E keys_present, indexes_present \in BOOLEAN :
                          serializeCall(keys_present, indexes_present)

\* ---- a session that fails inside a serialize call ----
\* the first c items of a call's writes, in program order
RECURSIVE TakeItems(_, _)
TakeItems(writes, c) ==
    IF writes = <<>> \/ c = 0 THEN <<>>
    ELSE IF Len(writes[1].items) <= c
         THEN <<writes[1]>> \o TakeItems(Tail(writes), c - Len(writes[1].items))
         ELSE <<[stream |-> writes[1].stream, items |-> SubSeq(writes[1].items, 1, c)]>>

RECURSIVE TotalItems(_)
TotalItems(writes) ==
    IF writes = <<>> THEN 0 ELSE Len(writes[1].items) + TotalItems(Tail(writes))

\* a write of the call throws after c items are out: the indexes stream is left with a
\* non-empty proper prefix of the block, the exception ends the session (no suffix),
\* and the dictionary was replaced only if the whole dictionary block went out
serializeAborted ==
    /\ enc_pc = "open"
    /\ enc_call.n < MaxBlocks
    /\ \E limit \in 0..(Len(column) - NextOffset + 1) :
         LET b == SerializeBlock(NextOffset, limit)
         IN  \E c \in 1..(TotalItems(b.writes) - 1) :
               LET part == TakeItems(b.writes, c)
                   to_indexes == WrittenTo(part, "indexes")
                   to_keys == WrittenTo(part, "keys")
               IN  /\ to_indexes # <<>>
                   /\ Len(to_indexes) < Len(b.indexes_written)
                   /\ indexes_stream' = indexes_stream \o to_indexes
                   /\ keys_stream' = keys_stream \o to_keys
                   /\ global_dictionary' = IF b.flushed /\ to_keys = b.keys_written
                                           THEN <<>> ELSE b.dict
    /\ enc_pc' = "aborted"
    /\ enc_call' = [n |-> enc_call.n + 1, keys_present |-> TRUE,
                    indexes_present |-> TRUE, result |-> "aborted"]
    /\ tampered' = [kind |-> "aborted", pos |-> Len(indexes_stream) + 1]
    /\ UNCHANGED <<column, max_dictionary_size, use_new_dictionary_on_overflow,
                   blocks, dec, calls>>
    /\ UNCHANGED hdr_vars
    /\ UNCHANGED map_vars

serializeBinaryBulkStateSuffix ==
    /\ enc_pc = "open"
    /\ enc_pc' = "closed"
    /\ keys_stream' = keys_stream \o SuffixKeysWritten
    /\ UNCHANGED <<column, max_dictionary_size, use_new_dictionary_on_overflow,
                   global_dictionary, indexes_stream, blocks, enc_call, tampered, dec, calls>>
    /\ UNCHANGED hdr_vars
    /\ UNCHANGED map_vars

\* ---- streams that were not written by this encoder ----
\* words whose value with bits 8 and 9 cleared is above 3
BadHeaderWords == {4, 1024, 1024 + 256 + 1}

Untampered == [kind |-> "none", pos |-> 0]

TamperVersion ==
    /\ enc_pc = "closed" /\ dec.status = "none" /\ tampered = Untampered
    /\ \E w \in 0..MaxVersion :
         /\ w # keys_stream[1]
         /\ keys_stream' = [keys_stream EXCEPT ![1] = w]
    /\ tampered' = [kind |-> "version", pos |-> 1]
    /\ UNCHANGED <<column, max_dictionary_size, use_new_dictionary_on_overflow, enc_pc,
                   global_dictionary, indexes_stream, blocks, enc_call, dec, calls>>
    /\ UNCHANGED hdr_vars
    /\ UNCHANGED map_vars

TamperHeader ==
    /\ enc_pc = "closed" /\ dec.status = "none" /\ tampered = Untampered
    /\ \E k \in 1..Len(blocks), w \in BadHeaderWords :
         /\ indexes_stream' = [indexes_stream EXCEPT ![blocks[k].header_pos] = w]
         /\ tampered' = [kind |-> "header", pos |-> blocks[k].header_pos]
    /\ UNCHANGED <<column, max_dictionary_size, use_new_dictionary_on_overflow, enc_pc,
                   global_dictionary, keys_stream, blocks, enc_call, dec, calls>>
    /\ UNCHANGED hdr_vars
    /\ UNCHANGED map_vars

\* ---- the decoder session: it reads the streams of a finished encoder session ----
\* the rows a decoder session asks for in total are capped one above the longest column
MaxRequested == MaxLen + 1

RECURSIVE Requested(_)
Requested(cs) == IF cs = <<>> THEN 0 ELSE cs[1] + Requested(Tail(cs))

deserializeBinaryBulkStatePrefix ==
    /\ enc_pc \in {"closed", "aborted"} /\ dec.status = "none" /\ dec.kpos = 1
    /\ dec' = deserializeStatePrefix(dec)
    /\ UNCHANGED enc_vars
    /\ UNCHANGED <<tampered, calls>>
    /\ UNCHANGED hdr_vars
    /\ UNCHANGED map_vars

deserializeBinaryBulkWithMultipleStreams ==
    /\ dec.status = "ok"
    /\ Len(calls) < MaxCalls
    /\ \E limit \in 0..(MaxRequested - Requested(calls)), proceeds \in BOOLEAN :
         /\ dec' = deserializeLoop(dec, limit, proceeds)
         /\ calls' = Append(calls, limit)
    /\ UNCHANGED enc_vars
    /\ UNCHANGED tampered
    /\ UNCHANGED hdr_vars
    /\ UNCHANGED map_vars

\* ---- mapIndexWithOverflow on its own ----
MapNone == [done |-> FALSE, index |-> <<>>, index_map |-> <<>>]

IndexColumns == UNION {[1..n -> 0..MaxIndexValue] : n \in 0..MaxIndexLen}

\* the call rewrites the column in place and returns the map
MapIndexCall ==
    /\ ~map_out.done
    /\ map_out' = [done |-> TRUE,
                   index |-> mapIndexWithOverflow(map_index, map_max).index,
                   index_map |-> mapIndexWithOverflow(map_index, map_max).index_map]
    /\ UNCHANGED <<map_index, map_max>>
    /\ UNCHANGED enc_vars
    /\ UNCHANGED <<tampered, dec, calls>>
    /\ UNCHANGED hdr_vars

\* ---- the header word on its own: IndexesSerializationType::serialize / deserialize ----
NoIndexType == [type |-> 0, has_additional_keys |-> FALSE, need_global_dictionary |-> FALSE]

HdrNone == [kind |-> "none", ok |-> TRUE, word |-> 0, type |-> NoIndexType]

\* serialize the descriptor under test
HeaderSerialize ==
    /\ hdr_out.kind = "none"
    /\ hdr_out' = [HdrNone EXCEPT !.kind = "written", !.word = IndexTypeSerialize(hdr_type)]
    /\ UNCHANGED <<hdr_word, hdr_type>>

\* deserialize the word that was just written
HeaderReadBack ==
    /\ hdr_out.kind = "written"
    /\ hdr_out' = IF checkType(hdr_out.word)
                  THEN [hdr_out EXCEPT !.kind = "read_back",
                                       !.type = IndexTypeDeserialize(hdr_out.word)]
                  ELSE [hdr_out EXCEPT !.kind = "read_back", !.ok = FALSE]
    /\ UNCHANGED <<hdr_word, hdr_type>>

\* deserialize the word under test
HeaderDeserialize ==
    /\ hdr_out.kind = "none"
    /\ hdr_out' = IF checkType(hdr_word)
                  THEN [HdrNone EXCEPT !.kind = "read", !.word = hdr_word,
                                       !.type = IndexTypeDeserialize(hdr_word)]
                  ELSE [HdrNone EXCEPT !.kind = "read", !.word = hdr_word, !.ok = FALSE]
    /\ UNCHANGED <<hdr_word, hdr_type>>

\* serialize the descriptor that was just read
HeaderRewrite ==
    /\ hdr_out.kind = "read" /\ hdr_out.ok
    /\ hdr_out' = [hdr_out EXCEPT !.kind = "rewritten", !.word = IndexTypeSerialize(hdr_out.type)]
    /\ UNCHANGED <<hdr_word, hdr_type>>

InitHeader ==
    /\ column = <<>>
    /\ max_dictionary_size = 0
    /\ use_new_dictionary_on_overflow = FALSE
    /\ enc_pc = "init"
    /\ global_dictionary = <<>>
    /\ keys_stream = <<>>
    /\ indexes_stream = <<>>
    /\ blocks = <<>>
    /\ enc_call = NoCall
    /\ tampered = Untampered
    /\ dec = NoDecoder
    /\ calls = <<>>
    /\ hdr_word \in 0..MaxWord
    /\ hdr_type \in IndexTypes
    /\ hdr_out = HdrNone
    /\ map_index = <<>>
    /\ map_max = 0
    /\ map_out = MapNone

NextHeader ==
    /\ (HeaderSerialize \/ HeaderReadBack \/ HeaderDeserialize \/ HeaderRewrite)
    /\ UNCHANGED enc_vars
    /\ UNCHANGED <<tampered, dec, calls>>
    /\ UNCHANGED map_vars

SpecHeader == InitHeader /\ [][NextHeader]_vars

InitMap ==
    /\ column = <<>>
    /\ max_dictionary_size = 0
    /\ use_new_dictionary_on_overflow = FALSE
    /\ enc_pc = "init"
    /\ global_dictionary = <<>>
    /\ keys_stream = <<>>
    /\ indexes_stream = <<>>
    /\ blocks = <<>>
    /\ enc_call = NoCall
    /\ tampered = Untampered
    /\ dec = NoDecoder
    /\ calls = <<>>
    /\ hdr_word = 0
    /\ hdr_type = NoIndexType
    /\ hdr_out = HdrNone
    /\ map_index \in IndexColumns
    /\ map_max \in 0..(MaxIndexValue + 1)
    /\ map_out = MapNone

NextMap == MapIndexCall

SpecMap == InitMap /\ [][NextMap]_vars

Columns == UNION {[1..n -> Values] : n \in 0..MaxLen}

Init ==
    /\ column \in Columns
    /\ max_dictionary_size \in 0..MaxDict
    /\ use_new_dictionary_on_overflow \in BOOLEAN
    /\ enc_pc = "init"
    /\ global_dictionary = <<>>
    /\ keys_stream = <<>>
    /\ indexes_stream = <<>>
    /\ blocks = <<>>
    /\ enc_call = NoCall
    /\ tampered = Untampered
    /\ dec = NoDecoder
    /\ calls = <<>>
    /\ hdr_word = 0
    /\ hdr_type = NoIndexType
    /\ hdr_out = HdrNone
    /\ map_index = <<>>
    /\ map_max = 0
    /\ map_out = MapNone

Next ==
    \/ serializeBinaryBulkStatePrefix
    \/ serializeBinaryBulkWithMultipleStreams
    \/ serializeBinaryBulkStateSuffix
    \/ TamperVersion
    \/ deserializeBinaryBulkStatePrefix
    \/ deserializeBinaryBulkWithMultipleStreams

Spec == Init /\ [][Next]_vars

\* the decoder reading streams in which one header word is not the encoder's
NextForeign ==
    \/ serializeBinaryBulkStatePrefix
    \/ serializeBinaryBulkWithMultipleStreams
    \/ serializeBinaryBulkStateSuffix
    \/ TamperHeader
    \/ (tampered.kind = "header" /\ deserializeBinaryBulkStatePrefix)
    \/ deserializeBinaryBulkWithMultipleStreams

SpecForeign == Init /\ [][NextForeign]_vars

\* encoder sessions that fail inside a serialize call, and decoders of what they left
NextAborted ==
    \/ serializeBinaryBulkStatePrefix
    \/ serializeBinaryBulkWithMultipleStreams
    \/ serializeAborted
    \/ deserializeBinaryBulkStatePrefix
    \/ deserializeBinaryBulkWithMultipleStreams

SpecAborted == Init /\ [][NextAborted]_vars

\* encoder sessions whose getter may leave streams out
NextGetter ==
    \/ serializeBinaryBulkStatePrefix
    \/ serializeWithGetter
    \/ serializeBinaryBulkStateSuffix

SpecGetter == Init /\ [][NextGetter]_vars

\* ---- what the claims speak about ----
Clean == tampered = Untampered

\* the rows the encoder session has encoded, in order
EncodedRows == RowsOf(blocks)

\* the decoder state right after a successful prefix
FreshDecoder == deserializeStatePrefix(NoDecoder)

\* the decoder has consumed the whole indexes stream
AtEOF == dec.num_pending_rows = 0 /\ dec.ipos > Len(indexes_stream)

PairwiseDistinct(s) == \A i, j \in 1..Len(s) : i # j => s[i] # s[j]

\* the generation of the encoder's global dictionary block k was encoded against:
\* generation g is the g-th dictionary block of the keys stream
EncoderGeneration(k) == 1 + Cardinality({j \in 1..(k - 1) : blocks[j].flushed})

\* C1: one block holding the whole column, encoded under any settings and decoded
\* with limit = n into an empty column, gives back the column value for value
C1_RoundTripOneBlock ==
    (/\ Clean /\ enc_pc = "closed"
     /\ Len(blocks) = 1 /\ blocks[1].offset = 0 /\ blocks[1].limit = Len(column)
     /\ calls = <<Len(column)>>)
    => /\ dec.status = "ok"
       /\ Len(dec.column) = Len(column)
       /\ \A i \in 1..Len(column) : dec.column[i] = column[i]

C1_Witness ==
    /\ Clean /\ enc_pc = "closed"
    /\ Len(blocks) = 1 /\ blocks[1].offset = 0 /\ blocks[1].limit = Len(column)
    /\ calls = <<Len(column)>>
    /\ Len(column) = 2 /\ blocks[1].additional_keys # <<>> /\ blocks[1].flushed
    /\ column[1] # column[2]
    /\ dec.column = column

\* C2: an encoder session of two or more serialize calls on consecutive row ranges,
\* read by one decoder session until the indexes stream is at EOF, gives back the
\* concatenation of the encoded ranges
C2_MultiBlockRoundTrip ==
    (/\ Clean /\ enc_pc = "closed" /\ Len(blocks) >= 2
     /\ dec.status = "ok" /\ calls # <<>> /\ AtEOF)
    => dec.column = EncodedRows

\* C3: with use_new_dictionary_on_overflow, every index block that needs the global
\* dictionary is decoded against the dictionary generation the encoder used for it
C3_DecodedAgainstEncoderGeneration ==
    (Clean /\ use_new_dictionary_on_overflow /\ max_dictionary_size > 0)
    => \A k \in 1..Len(dec.block_dicts) :
         blocks[k].rows # <<>> => dec.block_dicts[k] = EncoderGeneration(k)

\* C4: on encoder-written streams holding n rows, deserialize(a) then deserialize(b)
\* with a + b = n leaves the column that one deserialize(n) leaves
OneCall(limit) == deserializeLoop(FreshDecoder, limit, dec.ub # "crash")

C4_PartialReads ==
    (Clean /\ enc_pc = "closed")
    => /\ (Len(calls) = 2 /\ calls[1] + calls[2] = Len(EncodedRows))
          => /\ dec.column = OneCall(Len(EncodedRows)).column
             /\ dec.status = OneCall(Len(EncodedRows)).status
       /\ (Len(calls) = 1 /\ dec.status # "ok" /\ calls[1] <= Len(EncodedRows))
          => /\ dec.column = OneCall(Len(EncodedRows)).column
             /\ dec.status = OneCall(Len(EncodedRows)).status

C4_Witness ==
    /\ Clean /\ enc_pc = "closed"
    /\ Len(blocks) = 1 /\ Len(blocks[1].rows) = 2 /\ blocks[1].additional_keys # <<>>
    /\ calls = <<1, 1>>
    /\ dec.status = "ok" /\ dec.column = column /\ PairwiseDistinct(column)

\* C5: the decoder prefix raises logical-error exactly when the first word of the
\* keys stream is not 1, installs no state when it raises, and accepts every keys
\* stream the encoder prefix wrote
PrefixHasRun == dec.status # "none"

C5_VersionGate ==
    /\ PrefixHasRun =>
         /\ (dec.failed_in = "prefix" /\ dec.status = "logical_error") <=> keys_stream[1] # 1
         /\ dec.failed_in = "prefix" => ~dec.installed
         /\ keys_stream[1] = 1 => dec.installed
    /\ (enc_pc # "init" /\ tampered.kind # "version") => keys_stream[1] = 1

C5_Witness ==
    /\ tampered.kind = "version" /\ keys_stream[1] = 2
    /\ dec.status = "logical_error" /\ dec.failed_in = "prefix" /\ ~dec.installed

\* C6: with max_dictionary_size > 0, after every serialize call the global dictionary
\* holds at most max_dictionary_size keys when use_new_dictionary_on_overflow; when it
\* is off, the dictionary never shrinks from one call to the next
C6_BudgetDiscipline ==
    /\ []((max_dictionary_size > 0 /\ use_new_dictionary_on_overflow)
            => Len(global_dictionary) <= max_dictionary_size)
    /\ [][(max_dictionary_size > 0 /\ ~use_new_dictionary_on_overflow)
            => Len(global_dictionary') >= Len(global_dictionary)]_vars

C6_Witness ==
    /\ max_dictionary_size = 2 /\ ~use_new_dictionary_on_overflow
    /\ Len(blocks) = 2 /\ Len(blocks[1].dict) = 1 /\ Len(global_dictionary) = 2

\* C7: serialize writes a word with bits 10 and above zero and the width code in the
\* low byte; deserialize(serialize(h)) = h; serialize(deserialize(w)) = w for every
\* accepted word w
C7_HeaderWellFormed ==
    /\ hdr_out.kind = "written" =>
         /\ hdr_out.word \div 1024 = 0
         /\ hdr_out.word % 256 = hdr_type.type
    /\ hdr_out.kind = "read_back" => (hdr_out.ok /\ hdr_out.type = hdr_type)
    /\ hdr_out.kind = "rewritten" => hdr_out.word = hdr_word

C7_Witness ==
    /\ hdr_out.kind = "rewritten" /\ hdr_word = 768 + 3
    /\ hdr_out.type = [type |-> 3, has_additional_keys |-> TRUE, need_global_dictionary |-> TRUE]

\* C8: a header word whose value with bits 8 and 9 cleared is above 3 makes deserialize
\* raise logical-error at that header; the read appends no rows and leaves
\* last_index_type and num_pending_rows as they were before it
C8_MalformedHeader ==
    /\ (tampered.kind = "header" /\ dec.ipos > tampered.pos)
         => (dec.status = "logical_error" /\ dec.failed_in = "header")
    /\ dec.failed_in = "header" =>
         /\ dec.status = "logical_error"
         /\ dec.ipos = tampered.pos + 1
         /\ dec.column = dec.snap[1].column
         /\ dec.index_type = dec.snap[1].index_type
         /\ dec.num_pending_rows = dec.snap[1].num_pending_rows

C8_Witness ==
    /\ tampered.kind = "header" /\ indexes_stream[tampered.pos] = 1024
    /\ tampered.pos > 1
    /\ dec.failed_in = "header" /\ dec.status = "logical_error"
    /\ dec.column # <<>> /\ dec.index_type # <<>>

\* C9: n pairwise-distinct values serialized as the first block with
\* 0 < max_dictionary_size = m < n and no new dictionary on overflow: both flags set,
\* additional keys v(m+1)..vn, indexes 0..n-1, and the suffix writes v1..vm
C9_Case ==
    /\ Len(blocks) >= 1
    /\ ~use_new_dictionary_on_overflow
    /\ PairwiseDistinct(blocks[1].rows)
    /\ 0 < max_dictionary_size /\ max_dictionary_size < Len(blocks[1].rows)

C9_OverflowIntoAdditionalKeys ==
    C9_Case =>
      LET v == blocks[1].rows
          n == Len(v)
          m == max_dictionary_size
      IN  /\ Bit(blocks[1].header, NeedGlobalDictionaryBit) = 1
          /\ Bit(blocks[1].header, HasAdditionalKeysBit) = 1
          /\ blocks[1].additional_keys = SubSeq(v, m + 1, n)
          /\ blocks[1].positions = [i \in 1..n |-> i - 1]
          /\ SubSeq(indexes_stream, 2, Len(blocks[1].additional_keys) + n + 3)
               = <<n - m>> \o SubSeq(v, m + 1, n) \o <<n>> \o [i \in 1..n |-> i - 1]
          /\ enc_pc = "closed" =>
               SubSeq(keys_stream, 2, Len(keys_stream)) = <<m>> \o SubSeq(v, 1, m)

C9_Witness ==
    /\ C9_Case /\ enc_pc = "closed" /\ Clean
    /\ max_dictionary_size = 1 /\ Len(blocks[1].rows) = 2
    /\ Len(keys_stream) = 3

\* C10 as stated: the suffix writes a dictionary block to the keys stream exactly when
\* the global dictionary is non-empty and max_dictionary_size > 0, else nothing, and
\* never writes to the indexes stream
SuffixStep == enc_pc = "open" /\ enc_pc' = "closed"

C10_SuffixOnlyIfNonEmpty ==
    [][SuffixStep =>
         /\ keys_stream' = keys_stream \o
              (IF global_dictionary # <<>> /\ max_dictionary_size > 0
               THEN <<Len(global_dictionary)>> \o global_dictionary ELSE <<>>)
         /\ indexes_stream' = indexes_stream]_vars

\* C10 amended: the suffix writes one dictionary block (count, then keys) exactly when
\* max_dictionary_size > 0, an empty dictionary giving the block of count 0; else
\* nothing; and it never writes to the indexes stream
C10_SuffixIffBudget ==
    [][SuffixStep =>
         /\ keys_stream' = keys_stream \o
              (IF max_dictionary_size > 0
               THEN <<Len(global_dictionary)>> \o global_dictionary ELSE <<>>)
         /\ indexes_stream' = indexes_stream]_vars

C10_Witness ==
    /\ enc_pc = "closed" /\ Clean /\ max_dictionary_size > 0
    /\ global_dictionary = <<>> /\ blocks # <<>> /\ blocks[Len(blocks)].flushed
    /\ keys_stream[Len(keys_stream)] = 0

\* ---- the blocks as they stand in the indexes stream ----
\* the position of block k's row count: after the header and the additional keys
RowCountPos(k) ==
    blocks[k].header_pos + 1
    + (IF blocks[k].additional_keys # <<>> THEN 1 + Len(blocks[k].additional_keys) ELSE 0)

\* the row count block k carries in the indexes stream
WrittenRowCount(k) == indexes_stream[RowCountPos(k)]

\* the indexes block k carries in the indexes stream
WrittenIndexes(k) == SubSeq(indexes_stream, RowCountPos(k) + 1,
                            RowCountPos(k) + WrittenRowCount(k))

\* the value index p of block k stands for: a key of the global dictionary as it was
\* after the block's insertion, or one of the block's additional keys
ValueOfIndex(k, p) ==
    LET G == blocks[k].dict
        A == blocks[k].additional_keys
    IN  IF Bit(blocks[k].header, NeedGlobalDictionaryBit) = 1
        THEN IF p < Len(G) THEN G[p + 1] ELSE A[p - Len(G) + 1]
        ELSE A[p + 1]

\* the rows block k stands for
WrittenRows(k) == [i \in 1..WrittenRowCount(k) |-> ValueOfIndex(k, WrittenIndexes(k)[i])]

\* C11 as stated: every serialize(column, offset, limit), limit = 0 included, writes
\* one block of min(limit, s - offset) rows, the rows column[offset .. offset + that)
C11_LimitClampPlainMin ==
    \A k \in 1..Len(blocks) :
        LET n == Min(blocks[k].limit, Len(column) - blocks[k].offset)
        IN  /\ WrittenRowCount(k) = n
            /\ WrittenRows(k) = Slice(column, blocks[k].offset, n)

\* C11 amended: a serialize call with limit > 0 writes one block of
\* min(limit, s - offset) rows, and a call with limit = 0 writes one block of all the
\* s - offset rows from offset on; the rows are column[offset .. offset + that count)
C11_LimitClamp ==
    \A k \in 1..Len(blocks) :
        LET max_limit == Len(column) - blocks[k].offset
            n == IF blocks[k].limit = 0 THEN max_limit ELSE Min(blocks[k].limit, max_limit)
        IN  /\ WrittenRowCount(k) = n
            /\ WrittenRows(k) = Slice(column, blocks[k].offset, n)

C11_Witness ==
    /\ Len(blocks) = 2 /\ Len(column) = 2
    /\ blocks[1].limit = 1 /\ WrittenRowCount(1) = 1
    /\ blocks[2].limit = 0 /\ blocks[2].offset = 1 /\ WrittenRows(2) = <<column[2]>>

\* C12: a serialize call whose getter gives neither stream returns, and one whose
\* getter gives exactly one raises logical-error; either way the call writes nothing
\* to the keys or the indexes stream and leaves the global dictionary as it was
SerializeStep == enc_call'.n = enc_call.n + 1

C12_MissingStreams ==
    [][SerializeStep =>
         LET absent == (IF enc_call'.keys_present THEN 0 ELSE 1)
                       + (IF enc_call'.indexes_present THEN 0 ELSE 1)
         IN  /\ absent = 2 => enc_call'.result = "returned"
             /\ absent = 1 => enc_call'.result = "logical_error"
             /\ absent = 0 => enc_call'.result = "written"
             /\ absent > 0 => /\ keys_stream' = keys_stream
                              /\ indexes_stream' = indexes_stream
                              /\ global_dictionary' = global_dictionary]_vars

C12_Witness ==
    /\ enc_call.n = 2 /\ enc_call.result = "logical_error"
    /\ enc_call.keys_present /\ ~enc_call.indexes_present
    /\ Len(blocks) = 1 /\ global_dictionary # <<>> /\ Len(keys_stream) = 1

\* C13: with use_new_dictionary_on_overflow = false no serialize call writes to the
\* keys stream; until the suffix the keys stream is the version word alone, and after
\* it the version word followed by at most one global-dictionary block
C13_KeysOnlyAtSuffix ==
    /\ [][(~use_new_dictionary_on_overflow /\ SerializeStep)
             => keys_stream' = keys_stream]_vars
    /\ []((~use_new_dictionary_on_overflow /\ Clean) =>
            /\ enc_pc = "open" => keys_stream = <<SingleDictionaryWithAdditionalKeysPerBlock>>
            /\ enc_pc = "closed" =>
                 \/ keys_stream = <<SingleDictionaryWithAdditionalKeysPerBlock>>
                 \/ keys_stream = <<SingleDictionaryWithAdditionalKeysPerBlock,
                                    Len(global_dictionary)>> \o global_dictionary)

C13_Witness ==
    /\ ~use_new_dictionary_on_overflow /\ Clean /\ enc_pc = "closed"
    /\ max_dictionary_size = 1 /\ Len(blocks) = 2
    /\ blocks[1].rows # <<>> /\ blocks[2].additional_keys # <<>>
    /\ Len(keys_stream) = 3

\* C14: in a session with max_dictionary_size = 0 and no new dictionary on overflow
\* the global dictionary is empty after every call, every header has the
\* need-global-dictionary bit clear, every block carries exactly its distinct values
\* as additional keys and its indexes point into them, and the keys stream holds the
\* version word alone, after the suffix too
C14_Case == max_dictionary_size = 0 /\ ~use_new_dictionary_on_overflow /\ Clean

C14_NoGlobalDictionary ==
    C14_Case =>
      /\ global_dictionary = <<>>
      /\ enc_pc # "init" => keys_stream = <<SingleDictionaryWithAdditionalKeysPerBlock>>
      /\ \A k \in 1..Len(blocks) :
            LET A == blocks[k].additional_keys
                at == blocks[k].header_pos
            IN  /\ Bit(indexes_stream[at], NeedGlobalDictionaryBit) = 0
                /\ PairwiseDistinct(A)
                /\ Range(A) = Range(Slice(column, blocks[k].offset, WrittenRowCount(k)))
                /\ A # <<>> => SubSeq(indexes_stream, at + 1, at + 1 + Len(A)) = <<Len(A)>> \o A
                /\ \A i \in 1..WrittenRowCount(k) : WrittenIndexes(k)[i] \in 0..(Len(A) - 1)
                /\ WrittenRows(k) = Slice(column, blocks[k].offset, WrittenRowCount(k))

C14_Witness ==
    /\ C14_Case /\ enc_pc = "closed" /\ Len(blocks) = 2 /\ Len(column) = 2
    /\ blocks[1].additional_keys = <<column[1]>>
    /\ blocks[2].additional_keys = <<column[2]>>
    /\ column[1] # column[2]
    /\ keys_stream = <<1>>

\* C15: a serialize call that writes appends to the indexes stream the header word,
\* then, iff the header's has-additional-keys bit is set, a count above 0 and that
\* many keys, then num_rows and exactly num_rows indexes; the has-additional-keys
\* bit is set iff some key of the block is not in the global dictionary, and the
\* need-global-dictionary bit iff max_dictionary_size > 0
WritingStep == SerializeStep /\ enc_call'.result = "written"

C15_BlockFraming ==
    [][WritingStep =>
         LET w == SubSeq(indexes_stream', Len(indexes_stream) + 1, Len(indexes_stream'))
             b == blocks'[Len(blocks')]
             has == Bit(w[1], HasAdditionalKeysBit) = 1
             num_additional == IF has THEN w[2] ELSE 0
             keys == IF has THEN SubSeq(w, 3, 2 + num_additional) ELSE <<>>
             at == IF has THEN 3 + num_additional ELSE 2
             num_rows == w[at]
             unplaced == Range(b.rows) \ Range(b.dict)
         IN  /\ Len(w) >= 2
             /\ SubSeq(indexes_stream', 1, Len(indexes_stream)) = indexes_stream
             /\ w[1] \div 1024 = 0 /\ w[1] % 256 \in 0..TUInt64
             /\ has => (num_additional > 0 /\ Len(w) >= at)
             /\ Len(w) = at + num_rows
             /\ num_rows = Len(b.rows)
             /\ has <=> unplaced # {}
             /\ Range(keys) = unplaced /\ PairwiseDistinct(keys)
             /\ (Bit(w[1], NeedGlobalDictionaryBit) = 1) <=> (max_dictionary_size > 0)]_vars

C15_Witness ==
    /\ Len(blocks) = 2 /\ max_dictionary_size = 1
    /\ Bit(blocks[1].header, HasAdditionalKeysBit) = 0 /\ Len(blocks[1].rows) = 1
    /\ Bit(blocks[2].header, HasAdditionalKeysBit) = 1
    /\ Len(blocks[2].additional_keys) = 1 /\ Len(blocks[2].rows) = 1
    /\ Len(indexes_stream) = 3 + 5

\* C16: with use_new_dictionary_on_overflow and max_dictionary_size > 0, a serialize
\* call whose key insertion leaves the global dictionary with max_dictionary_size
\* keys or more writes exactly one dictionary block to the keys stream, after the
\* header and before the row count, and leaves an empty dictionary; a call that
\* leaves fewer keys writes nothing to the keys stream and keeps the dictionary
KeysWrites(writes) == {j \in 1..Len(writes) : writes[j].stream = "keys"}

C16_FlushOnOverflow ==
    [][(WritingStep /\ use_new_dictionary_on_overflow /\ max_dictionary_size > 0) =>
         LET b == blocks'[Len(blocks')]
             G == b.dict
             row_count == Len(b.writes) - 1
         IN  /\ SubSeq(G, 1, Len(global_dictionary)) = global_dictionary
             /\ Range(G) \subseteq Range(global_dictionary) \cup Range(b.rows)
             /\ b.writes[1] = [stream |-> "indexes", items |-> <<b.header>>]
             /\ b.writes[row_count] = [stream |-> "indexes", items |-> <<Len(b.rows)>>]
             /\ IF Len(G) >= max_dictionary_size
                THEN /\ keys_stream' = keys_stream \o <<Len(G)>> \o G
                     /\ Cardinality(KeysWrites(b.writes)) = 1
                     /\ \A j \in KeysWrites(b.writes) : 1 < j /\ j < row_count
                     /\ global_dictionary' = <<>>
                ELSE /\ keys_stream' = keys_stream
                     /\ KeysWrites(b.writes) = {}
                     /\ global_dictionary' = G]_vars

C16_Witness ==
    /\ use_new_dictionary_on_overflow /\ max_dictionary_size = 2 /\ enc_pc = "open"
    /\ Len(blocks) = 2 /\ Len(column) = 2
    /\ ~blocks[1].flushed /\ blocks[1].dict = <<column[1]>>
    /\ blocks[2].flushed /\ blocks[2].dict = column
    /\ global_dictionary = <<>>
    /\ keys_stream = <<1, 2>> \o column

\* ---- the decoder's place in the indexes stream ----
DeserializeStep == Len(calls') = Len(calls) + 1

\* the blocks whose header a decoder state has read
BlocksRead(d) == Len(d.block_dicts)

\* the rows of the first k blocks
RowsUpTo(k) == Len(RowsOf(SubSeq(blocks, 1, k)))

\* the position after the last index of block k
EndOfBlock(k) == IF k = 0 THEN 1 ELSE RowCountPos(k) + WrittenRowCount(k) + 1

\* C17: on encoder-written streams every deserialize(limit) call returns having
\* appended min(limit, rows of the stream not yet consumed) rows, with
\* num_pending_rows the rows of the current block not yet consumed and the stream
\* position right before them; a call that starts inside a block reads no header
\* until that block's rows are consumed
C17_PendingRowAccounting ==
    [][(DeserializeStep /\ Clean) =>
         LET limit == calls'[Len(calls')]
             left == Len(EncodedRows) - Len(dec.column)
         IN  /\ dec'.status = "ok"
             /\ Len(dec'.column) = Len(dec.column) + Min(limit, left)
             /\ dec'.num_pending_rows = RowsUpTo(BlocksRead(dec')) - Len(dec'.column)
             /\ dec'.ipos = EndOfBlock(BlocksRead(dec')) - dec'.num_pending_rows
             /\ (dec.num_pending_rows > 0 /\ limit <= dec.num_pending_rows)
                  => BlocksRead(dec') = BlocksRead(dec)]_vars

\* C18: on encoder-written streams every deserialize(limit) call returns, either
\* with limit rows appended or with the indexes stream at EOF and
\* num_pending_rows = 0, blocks of zero rows included
C18_DecoderTermination ==
    [][(DeserializeStep /\ Clean) =>
         /\ dec'.status = "ok"
         /\ \/ Len(dec'.column) = Len(dec.column) + calls'[Len(calls')]
            \/ dec'.num_pending_rows = 0 /\ dec'.ipos > Len(indexes_stream)]_vars

\* C19: in a block written with need-global-dictionary set every index p is below
\* |G| + |A| (G the global dictionary after the block's insertion, A its additional
\* keys); p < |G| exactly for the rows whose value is G[p] and p >= |G| exactly for
\* the rows whose value is A[p - |G|]; with the bit clear p < |A| and the value is A[p]
C19_IndexValidity ==
    Clean =>
      \A k \in 1..Len(blocks) :
        LET G == blocks[k].dict
            A == blocks[k].additional_keys
            idx == WrittenIndexes(k)
        IN  /\ Len(idx) = Len(blocks[k].rows)
            /\ \A i \in 1..Len(idx) :
                  LET v == column[blocks[k].offset + i]
                  IN  IF Bit(indexes_stream[blocks[k].header_pos], NeedGlobalDictionaryBit) = 1
                      THEN /\ idx[i] \in 0..(Len(G) + Len(A) - 1)
                           /\ idx[i] < Len(G) => G[idx[i] + 1] = v
                           /\ idx[i] >= Len(G) => A[idx[i] - Len(G) + 1] = v
                           /\ idx[i] < Len(G) <=> v \in Range(G)
                           /\ idx[i] >= Len(G) <=> v \in Range(A)
                      ELSE /\ idx[i] \in 0..(Len(A) - 1)
                           /\ A[idx[i] + 1] = v

C19_Witness ==
    /\ Clean /\ max_dictionary_size = 1 /\ ~use_new_dictionary_on_overflow
    /\ Len(blocks) = 2 /\ Len(column) = 2
    /\ WrittenIndexes(1) = <<0>> /\ blocks[1].dict = <<column[1]>>
    /\ WrittenIndexes(2) = <<1>> /\ blocks[2].additional_keys = <<column[2]>>
    /\ blocks[2].dict = <<column[1]>>

\* C20: for a block read with both a global dictionary G and additional keys A, the
\* row appended for index v has value G[v] if v < |G| and A[v - |G|] otherwise; and
\* the combined keys K (the referenced keys of G in first-occurrence order, then A)
\* with the rewritten indexes v' give K[v'] = that value for every row
BothDictionaries(k) ==
    /\ Bit(indexes_stream[blocks[k].header_pos], NeedGlobalDictionaryBit) = 1
    /\ Bit(indexes_stream[blocks[k].header_pos], HasAdditionalKeysBit) = 1

\* the value the decoder's dictionaries give index v of block k
DecoderValue(k, v) ==
    LET G == dec.global_dictionary[1]
        A == blocks[k].additional_keys
    IN  IF v < Len(G) THEN G[v + 1] ELSE A[v - Len(G) + 1]

C20_CaseC ==
    (Clean /\ dec.status = "ok") =>
      \A k \in 1..Len(blocks) :
        (BothDictionaries(k) /\ RowsUpTo(k - 1) < Len(dec.column)) =>
          LET G == dec.global_dictionary[1]
              A == blocks[k].additional_keys
              idx == WrittenIndexes(k)
              m == mapIndexWithOverflow(idx, Len(G))
              K == Gather(G, m.index_map) \o A
          IN  /\ dec.global_dictionary # <<>>
              /\ \A i \in 1..Len(idx) :
                    /\ idx[i] < Len(G) + Len(A)
                    /\ RowsUpTo(k - 1) + i <= Len(dec.column)
                         => dec.column[RowsUpTo(k - 1) + i] = DecoderValue(k, idx[i])
                    /\ m.index[i] < Len(K)
                    /\ K[m.index[i] + 1] = DecoderValue(k, idx[i])

C20_Witness ==
    /\ Clean /\ dec.status = "ok" /\ calls = <<2>>
    /\ Len(blocks) = 1 /\ BothDictionaries(1)
    /\ WrittenIndexes(1) = <<0, 1>> /\ Len(blocks[1].additional_keys) = 1
    /\ dec.global_dictionary = <<(<<column[1]>>)>>
    /\ dec.column = column /\ column[1] # column[2]

\* C21: when an encoder session was aborted with only part of a block in the indexes
\* stream, a decoder that reads into that part reports logical-error at the header
\* read, and returns no rows with a plain result
ReadIntoAbortedBlock == tampered.kind = "aborted" /\ dec.ipos > tampered.pos

C21_AbortedSessionDiagnosed ==
    ReadIntoAbortedBlock => (dec.status = "logical_error" /\ dec.failed_in = "header")

\* C22: on every stream the encoder produces, zero-row blocks and
\* max_dictionary_size = 0 included, readIndexes never installs or reads a
\* global_dictionary that is absent and never reads additional_keys that are absent
C22_NoAbsentDictionary == Clean => ~dec.absent_used

\* ---- the dictionary blocks of the keys stream ----
\* the blocks (count, then that many keys) of a stream from position pos on
RECURSIVE DictionaryBlocks(_, _)
DictionaryBlocks(stream, pos) ==
    IF pos > Len(stream) THEN <<>>
    ELSE <<SubSeq(stream, pos + 1, pos + stream[pos])>>
         \o DictionaryBlocks(stream, pos + 1 + stream[pos])

\* the dictionaries the flushing calls wrote, in call order
RECURSIVE FlushedDictionaries(_)
FlushedDictionaries(bs) ==
    IF bs = <<>> THEN <<>>
    ELSE (IF bs[1].flushed THEN <<bs[1].dict>> ELSE <<>>) \o FlushedDictionaries(Tail(bs))

\* C23: every index p < |G| a block was written with stands, in the dictionary block
\* the keys stream later holds for that block's generation, for the value of the row
\* it was written for; and once the suffix has returned the keys stream holds every
\* generation a block was encoded against exactly once, in generation order
C23_StableIds ==
    (Clean /\ max_dictionary_size > 0 /\ enc_pc \in {"open", "closed"}) =>
      LET D == DictionaryBlocks(keys_stream, 2)
      IN  /\ \A k \in 1..Len(blocks) :
                LET g == EncoderGeneration(k)
                    idx == WrittenIndexes(k)
                IN  /\ enc_pc = "closed" => g <= Len(D)
                    /\ g <= Len(D) =>
                         \A i \in 1..Len(idx) :
                            idx[i] < Len(blocks[k].dict) =>
                               /\ idx[i] < Len(D[g])
                               /\ D[g][idx[i] + 1] = column[blocks[k].offset + i]
          /\ enc_pc = "open" => D = FlushedDictionaries(blocks)
          /\ enc_pc = "closed" => D = FlushedDictionaries(blocks) \o <<global_dictionary>>

C23_Witness ==
    /\ Clean /\ enc_pc = "closed" /\ max_dictionary_size = 2
    /\ ~use_new_dictionary_on_overflow
    /\ Len(blocks) = 2 /\ Len(column) = 2 /\ column[1] # column[2]
    /\ blocks[1].dict = <<column[1]>> /\ WrittenIndexes(1) = <<0>>
    /\ WrittenIndexes(2) = <<1>>
    /\ DictionaryBlocks(keys_stream, 2) = <<column>>

\* ---- mapIndexWithOverflow: what the call is said to do ----
FirstOccurrence(s, v) == CHOOSE i \in 1..Len(s) : s[i] = v /\ \A j \in 1..(i - 1) : s[j] # v

\* the distinct values of the column below max_val
BelowMaxValues == {v \in Range(map_index) : v < map_max}

\* 0-based rank of v among them in order of first occurrence
RankOf(v) ==
    Cardinality({u \in BelowMaxValues :
                   FirstOccurrence(map_index, u) < FirstOccurrence(map_index, v)})

\* the rewriting and the map, without the bound on v'
MapRewrites ==
    LET N == Cardinality(BelowMaxValues)
        new == map_out.index
        map == map_out.index_map
    IN  /\ Len(new) = Len(map_index)
        /\ Len(map) = N
        /\ \A i \in 1..Len(map_index) :
              IF map_index[i] < map_max
              THEN /\ new[i] = RankOf(map_index[i])
                   /\ new[i] < N
                   /\ map[new[i] + 1] = map_index[i]
              ELSE new[i] = map_index[i] - map_max + N
        /\ \A i, j \in 1..Len(map_index) :
              map_index[i] = map_index[j] => new[i] = new[j]

\* C24 as stated: the rewriting and the map as above, and v' <= v for every entry
C24_MapIndexNeverGrows ==
    map_out.done =>
      /\ MapRewrites
      /\ \A i \in 1..Len(map_index) : map_out.index[i] <= map_index[i]

\* C24 amended: the rewriting and the map as above; v' <= v for every entry that
\* was >= max, and v' < N for every entry that was < max
C24_MapIndexWithOverflow ==
    map_out.done =>
      /\ MapRewrites
      /\ \A i \in 1..Len(map_index) :
            IF map_index[i] >= map_max
            THEN map_out.index[i] <= map_index[i]
            ELSE map_out.index[i] < Cardinality(BelowMaxValues)

C24_Witness ==
    /\ map_out.done /\ map_index = <<1, 3, 0>> /\ map_max = 2
    /\ map_out.index = <<0, 3, 1>> /\ map_out.index_map = <<1, 0>>

====
